---- MODULE Spec2Model ----
(***************************************************************************)
(* State-machine model of the todo-list component `Main`: the loader       *)
(* (fetchTodos), the mutators (addTodo, toggleTodoCompletion, deleteTodo)   *)
(* and the write-through mirror in localStorage under the key "todos".     *)
(*                                                                         *)
(* The repository holds three near-duplicate variants of the component:    *)
(*   "priority"  src/src/components/main/Main.tsx, lines 1-323             *)
(*   "filter"    src/src/components/main/Main.tsx, lines 325-577           *)
(*   "basic"     src/unnamed/part_000                                      *)
(* The variable `variant` fixes which one is mounted.                      *)
(*                                                                         *)
(* React semantics kept by the model: a handler reads the state of the     *)
(* render that created it.  A synchronous handler (toggle, delete, submit) *)
(* therefore reads the committed state; the continuation of the async      *)
(* addTodo, which runs after the await, still reads the `todos` captured   *)
(* when handleSubmit was invoked.                                          *)
(***************************************************************************)
EXTENDS Integers, Sequences, FiniteSets, TLC

VARIABLES
    variant,    \* which of the three components is mounted
    todos,      \* useState<Todo[]>: the committed in-memory list
    loading,    \* useState<boolean>
    error,      \* useState<string | null>
    cache,      \* localStorage value under the key "todos"
    fetchPc,    \* position of the mount effect's fetchTodos call
    pending,    \* addTodo calls suspended at `await fetch(API_URL, POST)`
    server,     \* the remote endpoint's collection (GET returns it, POST appends)
    submitted,  \* number of handleSubmit calls that reached addTodo
    filter,     \* useState<"all" | "completed" | "active">
    view,       \* the sequence the last render derived for display
    last        \* the handler that ran last, its inputs and the state it started from

vars == <<variant, todos, loading, error, cache, fetchPc, pending, server, submitted,
          filter, view, last>>

-----------------------------------------------------------------------------
(* Bounds of the model *)

\* addTodo calls over the life of the component
MaxAdds == 1
\* length of the lists the presenter is checked on
MaxList == 3

-----------------------------------------------------------------------------
(* JavaScript values *)

\* a string value; an object value (a function from property names to values)
Str(s) == [s |-> s]
Obj(o) == [o |-> o]
Arr(a) == [a |-> a]
IsString(v) == "s" \in DOMAIN v
IsArray(v) == "a" \in DOMAIN v

Null == [null |-> TRUE]

Variants == {"priority", "filter", "basic"}

Priority == {"low", "medium", "high"}

\* `x.f || d` for a property that is absent or truthy when present
OrDefault(o, f, d) == IF f \in DOMAIN o THEN o[f] ELSE d

\* `{...o, f: v}`
SpreadWith(o, f, v) == [g \in DOMAIN o \cup {f} |-> IF g = f THEN v ELSE o[g]]

-----------------------------------------------------------------------------
(* localStorage and JSON *)

\* localStorage.getItem("todos"): null when nothing is stored, else the stored
\* string, which is either text that JSON.parse rejects or the JSON text of a value
Absent == [absent |-> TRUE]
RawText(t) == [raw |-> t]
JsonText(v) == [json |-> v]

\* `if (localTodos)`: null and the empty string are falsy
Truthy(c) == c # Absent /\ c # RawText("")

\* JSON.parse throws on text that is not JSON
CanParse(c) == "json" \in DOMAIN c
JsonParse(c) == c.json

\* JSON.stringify(list.map(todo => todo.title)): the legacy shape of bare titles
JsonStringifyTitles(list) == JsonText(Arr([i \in 1..Len(list) |-> list[i].title]))

\* JSON.stringify of a list of task objects: an array of objects
JsonStringify(list) == JsonText(Arr([i \in 1..Len(list) |-> Obj(list[i])]))

-----------------------------------------------------------------------------
(* The remote endpoint *)

\* the record the endpoint holds under id i
ServerTodo(i) ==
    IF i % 2 = 0
    THEN [id |-> i, title |-> Str("b"), completed |-> TRUE, priority |-> "high"]
    ELSE [id |-> i, title |-> Str("a"), completed |-> FALSE]

\* the collection when the component mounts: empty, or two records
InitialServers == {<<>>, <<ServerTodo(1), ServerTodo(2)>>}

\* bodies a 2xx GET may carry: { data: [...] }, or an object without `data`
GetBodies(srv) == {[data |-> srv], [nodata |-> TRUE]}

\* ways a remote call fails: fetch rejects, status is not 2xx, response.json() throws
Failures == {"network", "status", "malformed"}

\* the record a 2xx POST { task } creates and returns as { data: record }
Created(srv, task) == [id |-> Len(srv) + 1, title |-> Str(task), completed |-> FALSE]

-----------------------------------------------------------------------------
(* fetchTodos *)

\* every loaded task given priority "medium", whatever the server sent
LoadedTodosForcedMedium(v, body) ==
    LET data == OrDefault(body, "data", <<>>)
    IN  IF v = "priority"
        THEN [i \in 1..Len(data) |-> SpreadWith(data[i], "priority", "medium")]
        ELSE data

\* success branch: (data.data || []).map(todo => ({...todo, priority: todo.priority || "medium"}))
\* in the priority variant, data.data || [] in the other two
LoadedTodos(v, body) ==
    LET data == OrDefault(body, "data", <<>>)
    IN  IF v = "priority"
        THEN [i \in 1..Len(data) |->
                SpreadWith(data[i], "priority", OrDefault(data[i], "priority", "medium"))]
        ELSE data

\* the callback of parsedTodos.map(...), index counted from 0
NormalizeItem(v, item, index) ==
    CASE v = "priority" ->
            IF IsString(item)
            THEN [id |-> index + 1, title |-> item, completed |-> FALSE,
                  priority |-> "medium"]
            ELSE SpreadWith(item.o, "priority", OrDefault(item.o, "priority", "medium"))
      [] v = "filter" ->
            [id |-> index + 1,
             title |-> IF IsString(item) THEN item ELSE item.o.title,
             completed |-> IF IsString(item) THEN FALSE
                           ELSE OrDefault(item.o, "completed", FALSE)]
      [] v = "basic" ->
            [id |-> index + 1, title |-> item, completed |-> FALSE]

\* a parsed value that is no array kept as a one-element list
FetchFallbackWrapped(v, c, current) ==
    IF ~Truthy(c) THEN current
    ELSE IF ~CanParse(c) THEN <<>>
    ELSE LET parsed == JsonParse(c)
         IN  IF IsArray(parsed)
             THEN [i \in 1..Len(parsed.a) |-> NormalizeItem(v, parsed.a[i], i - 1)]
             ELSE <<parsed>>

\* catch branch: the list after the fallback to localStorage
FetchFallback(v, c, current) ==
    IF ~Truthy(c) THEN current
    ELSE IF ~CanParse(c) THEN <<>>
    ELSE LET parsed == JsonParse(c)
         IN  IF IsArray(parsed)
             THEN [i \in 1..Len(parsed.a) |-> NormalizeItem(v, parsed.a[i], i - 1)]
             ELSE <<>>

LoadFailedMessage == Str("Failed to load todos. Using local storage as fallback.")
AddFailedMessage == Str("Failed to add todo. Added to local storage only.")

-----------------------------------------------------------------------------
(* addTodo, toggleTodoCompletion, deleteTodo, handleSubmit *)

\* input.trim() on the inputs the model submits
Trim(input) ==
    CASE input = " " -> ""
      [] input = " a" -> "a"
      [] OTHER -> input

Inputs == {"", " ", " a"}

\* the priority button that is selected; the other variants have none
Choices(v) == IF v = "priority" THEN Priority ELSE {"medium"}

\* try branch: { ...data.data, priority } in the priority variant, data.data otherwise
AddedOnSuccess(v, record, priority) ==
    IF v = "priority" THEN SpreadWith(record, "priority", priority) ELSE record

\* catch branch: { id: todos.length + 1, title: task, completed: false [, priority] }
AddedOnFailure(v, captured, task, priority) ==
    IF v = "priority"
    THEN [id |-> Len(captured) + 1, title |-> Str(task), completed |-> FALSE,
          priority |-> priority]
    ELSE [id |-> Len(captured) + 1, title |-> Str(task), completed |-> FALSE]

\* the matching task marked completed instead of flipped
ToggledSetTrue(list, id) ==
    [i \in 1..Len(list) |->
        IF list[i].id = id THEN SpreadWith(list[i], "completed", TRUE) ELSE list[i]]

\* todos.map(todo => todo.id === id ? { ...todo, completed: !todo.completed } : todo)
Toggled(list, id) ==
    [i \in 1..Len(list) |->
        IF list[i].id = id
        THEN SpreadWith(list[i], "completed", ~OrDefault(list[i], "completed", FALSE))
        ELSE list[i]]

RemoveAt(seq, i) == SubSeq(seq, 1, i - 1) \o SubSeq(seq, i + 1, Len(seq))

\* only the first task with the id removed (findIndex + splice)
DeletedFirstOnly(list, id) ==
    IF \E i \in 1..Len(list) : list[i].id = id
    THEN RemoveAt(list, CHOOSE i \in 1..Len(list) :
                            /\ list[i].id = id
                            /\ \A j \in 1..(i - 1) : list[j].id # id)
    ELSE list

\* todos.filter(todo => todo.id !== id)
Deleted(list, id) == SelectSeq(list, LAMBDA todo : todo.id # id)

TodoIds(list) == {list[i].id : i \in 1..Len(list)}

-----------------------------------------------------------------------------
(* filteredTodos, sortedTodos *)

Filters == {"all", "completed", "active"}

\* the "completed" branch forgotten: falls through to `return true`
FilteredTodosNoCompleted(list, f) ==
    SelectSeq(list, LAMBDA todo :
        CASE f = "all" -> TRUE
          [] f = "active" -> ~OrDefault(todo, "completed", FALSE)
          [] OTHER -> TRUE)

\* todos.filter(todo => ...) under the filter f
FilteredTodos(list, f) ==
    SelectSeq(list, LAMBDA todo :
        CASE f = "all" -> TRUE
          [] f = "completed" -> OrDefault(todo, "completed", FALSE)
          [] f = "active" -> ~OrDefault(todo, "completed", FALSE)
          [] OTHER -> TRUE)

\* const priorityOrder = { high: 3, medium: 2, low: 1 }
PriorityOrder(p) ==
    CASE p = "high" -> 3
      [] p = "medium" -> 2
      [] p = "low" -> 1

\* the comparator (a, b) => priorityOrder[b.priority] - priorityOrder[a.priority]
Compare(a, b) == PriorityOrder(b.priority) - PriorityOrder(a.priority)

\* x put before the first element that x must precede or ties with
InsertedUnstable(sorted, x) ==
    LET before == {k \in 1..Len(sorted) : Compare(sorted[k], x) >= 0}
        at == IF before = {} THEN Len(sorted) + 1
              ELSE CHOOSE k \in before : \A j \in before : k <= j
    IN  SubSeq(sorted, 1, at - 1) \o <<x>> \o SubSeq(sorted, at, Len(sorted))

\* one step of the stable sort: x put before the first element that must follow it
\* (Compare > 0), so after every element it ties with
Inserted(sorted, x) ==
    LET before == {k \in 1..Len(sorted) : Compare(sorted[k], x) > 0}
        at == IF before = {} THEN Len(sorted) + 1
              ELSE CHOOSE k \in before : \A j \in before : k <= j
    IN  SubSeq(sorted, 1, at - 1) \o <<x>> \o SubSeq(sorted, at, Len(sorted))

\* [...filteredTodos].sort(comparator): Array.prototype.sort is stable
RECURSIVE SortedTodos(_)
SortedTodos(list) ==
    IF list = <<>> THEN <<>>
    ELSE Inserted(SortedTodos(SubSeq(list, 1, Len(list) - 1)), list[Len(list)])

\* what a render derives for display: sortedTodos, filteredTodos or todos
Rendered(v, list, f) ==
    CASE v = "priority" -> SortedTodos(FilteredTodos(list, f))
      [] v = "filter" -> FilteredTodos(list, f)
      [] v = "basic" -> list

-----------------------------------------------------------------------------
(* State *)

\* an entry [{"id":7,...}] as an earlier session of any variant may have left it
CachedObject == [id |-> 7, title |-> Str("c"), completed |-> TRUE]
CachedObjectWithPriority == [id |-> 7, title |-> Str("c"), completed |-> TRUE, priority |-> "low"]

InitialCaches ==
    { Absent, RawText(""), RawText("not json"), JsonText(Obj(<<>>)),
      JsonText(Arr(<<Str("c"), Obj(CachedObject)>>)),
      JsonText(Arr(<<Obj(CachedObjectWithPriority)>>)) }

NoCall == [task |-> "", priority |-> "medium", todos |-> <<>>]

Snapshot ==
    [todos |-> todos, cache |-> cache, error |-> error, loading |-> loading,
     pending |-> pending, fetchPc |-> fetchPc, server |-> server]

\* the record of a handler run: its name, its inputs, its return value, the state before
Ran(op, id, call, body, ret) ==
    [op |-> op, id |-> id, call |-> call, body |-> body, ret |-> ret, pre |-> Snapshot]

Init ==
    /\ variant \in Variants
    /\ todos = <<>>
    /\ loading = TRUE
    /\ error = Null
    /\ cache \in InitialCaches
    /\ fetchPc = "idle"
    /\ pending = <<>>
    /\ server \in InitialServers
    /\ submitted = 0
    /\ filter = "all"
    /\ view = <<>>
    /\ last = [op |-> "init", id |-> 0, call |-> NoCall, body |-> <<>>, ret |-> FALSE,
               pre |-> [todos |-> <<>>, cache |-> cache, error |-> Null, loading |-> TRUE,
                        pending |-> <<>>, fetchPc |-> "idle", server |-> server]]

-----------------------------------------------------------------------------
(* Actions *)

\* useEffect(() => { fetchTodos(); }, []): fetchTodos up to `await fetch(API_URL)`
Mount ==
    /\ fetchPc = "idle"
    /\ fetchPc' = "awaiting"
    /\ loading' = TRUE
    /\ last' = Ran("mount", 0, NoCall, <<>>, FALSE)
    /\ UNCHANGED <<variant, todos, error, cache, pending, server, submitted, filter, view>>

\* fetchTodos resumes with a 2xx response whose body parses
FetchSuccess(body) ==
    /\ fetchPc = "awaiting"
    /\ todos' = LoadedTodos(variant, body)
    /\ error' = Null
    /\ loading' = FALSE
    /\ fetchPc' = "done"
    /\ last' = Ran("fetchOk", 0, NoCall, body, FALSE)
    /\ view' = Rendered(variant, todos', filter)
    /\ UNCHANGED <<variant, cache, pending, server, submitted, filter>>

\* the catch branch without the `finally { setLoading(false) }`
FetchFailureNoFinally(reason) ==
    /\ fetchPc = "awaiting"
    /\ error' = LoadFailedMessage
    /\ todos' = FetchFallback(variant, cache, todos)
    /\ fetchPc' = "done"
    /\ last' = Ran("fetchFail", 0, NoCall, <<>>, FALSE)
    /\ view' = Rendered(variant, todos', filter)
    /\ UNCHANGED <<variant, loading, cache, pending, server, submitted, filter>>

\* fetchTodos resumes in its catch branch
FetchFailure(reason) ==
    /\ fetchPc = "awaiting"
    /\ error' = LoadFailedMessage
    /\ todos' = FetchFallback(variant, cache, todos)
    /\ loading' = FALSE
    /\ fetchPc' = "done"
    /\ last' = Ran("fetchFail", 0, NoCall, <<>>, FALSE)
    /\ view' = Rendered(variant, todos', filter)
    /\ UNCHANGED <<variant, cache, pending, server, submitted, filter>>

\* handleSubmit up to the `await fetch(API_URL, POST)` inside addTodo
HandleSubmit(input, priority) ==
    /\ fetchPc # "idle"
    /\ Trim(input) # ""
    /\ submitted < MaxAdds
    /\ submitted' = submitted + 1
    /\ LET call == [task |-> input, priority |-> priority, todos |-> todos]
       IN  /\ pending' = Append(pending, call)
           /\ last' = Ran("submit", 0, call, <<>>, FALSE)
    /\ UNCHANGED <<variant, todos, loading, error, cache, fetchPc, server, filter, view>>

\* addTodo number i resumes with a 2xx response { data: record }
AddTodoSuccess(i) ==
    /\ i \in DOMAIN pending
    /\ LET call == pending[i]
           record == Created(server, call.task)
           newTodo == AddedOnSuccess(variant, record, call.priority)
           updated == Append(call.todos, newTodo)
       IN  /\ server' = Append(server, record)
           /\ todos' = updated
           /\ cache' = JsonStringify(updated)
           /\ last' = Ran("addOk", 0, call, [data |-> record], TRUE)
    /\ pending' = RemoveAt(pending, i)
    /\ view' = Rendered(variant, todos', filter)
    /\ UNCHANGED <<variant, loading, error, fetchPc, submitted, filter>>

\* addTodo number i resumes in its catch branch
AddTodoFailure(i, reason) ==
    /\ i \in DOMAIN pending
    /\ LET call == pending[i]
           newTodo == AddedOnFailure(variant, call.todos, call.task, call.priority)
           updated == Append(call.todos, newTodo)
       IN  /\ error' = AddFailedMessage
           /\ todos' = updated
           /\ cache' = JsonStringify(updated)
           /\ last' = Ran("addFail", 0, call, <<>>, FALSE)
    /\ pending' = RemoveAt(pending, i)
    /\ view' = Rendered(variant, todos', filter)
    /\ UNCHANGED <<variant, loading, fetchPc, server, submitted, filter>>

\* the checkbox of a rendered task; the basic variant renders none
ToggleTodoCompletion(id) ==
    /\ variant # "basic"
    /\ ~loading
    /\ LET updatedTodos == Toggled(todos, id)
       IN  /\ todos' = updatedTodos
           /\ cache' = JsonStringify(updatedTodos)
    /\ last' = Ran("toggle", id, NoCall, <<>>, FALSE)
    /\ view' = Rendered(variant, todos', filter)
    /\ UNCHANGED <<variant, loading, error, fetchPc, pending, server, submitted, filter>>

\* the delete button of a rendered task; the basic variant renders none
DeleteTodo(id) ==
    /\ variant # "basic"
    /\ ~loading
    /\ LET updatedTodos == Deleted(todos, id)
       IN  /\ todos' = updatedTodos
           /\ cache' = JsonStringify(updatedTodos)
    /\ last' = Ran("delete", id, NoCall, <<>>, FALSE)
    /\ view' = Rendered(variant, todos', filter)
    /\ UNCHANGED <<variant, loading, error, fetchPc, pending, server, submitted, filter>>

\* a filter button: setFilter(f) and the render that follows
SetFilter(f) ==
    /\ variant # "basic"
    /\ fetchPc # "idle"
    /\ filter' = f
    /\ view' = Rendered(variant, todos, f)
    /\ last' = Ran("filter", 0, NoCall, <<>>, FALSE)
    /\ UNCHANGED <<variant, todos, loading, error, cache, fetchPc, pending, server, submitted>>

\* ids a handler may be called with: those of the tasks held, and one that none has
CallableIds == TodoIds(todos) \cup {0}

Next ==
    \/ Mount
    \/ \E body \in GetBodies(server) : FetchSuccess(body)
    \/ \E reason \in Failures : FetchFailure(reason)
    \/ \E input \in Inputs, priority \in Choices(variant) : HandleSubmit(input, priority)
    \/ \E i \in 1..MaxAdds : AddTodoSuccess(i)
    \/ \E i \in 1..MaxAdds, reason \in Failures : AddTodoFailure(i, reason)
    \/ \E id \in CallableIds : ToggleTodoCompletion(id)
    \/ \E id \in CallableIds : DeleteTodo(id)

Spec == Init /\ [][Next]_vars

\* The filter buttons touch nothing but `filter` and the derived view, and no
\* handler reads either: Spec keeps the filter at its initial "all", and the
\* presenter is run by itself, on every list of up to MaxList tasks (duplicate
\* ids included), once the load is over.
PresenterTasks(v) ==
    IF v = "priority"
    THEN {[id |-> i, title |-> Str("a"), completed |-> c, priority |-> p] :
            i \in {1, 2}, c \in BOOLEAN, p \in Priority}
    ELSE {[id |-> i, title |-> Str("a"), completed |-> c] : i \in {1, 2}, c \in BOOLEAN}

PresenterLists(v) == UNION {[1..n -> PresenterTasks(v)] : n \in 0..MaxList}

PresenterInit ==
    /\ variant \in {"priority", "filter"}
    /\ todos \in PresenterLists(variant)
    /\ loading = FALSE
    /\ error = Null
    /\ cache = Absent
    /\ fetchPc = "done"
    /\ pending = <<>>
    /\ server = <<>>
    /\ submitted = 0
    /\ filter = "all"
    /\ view = Rendered(variant, todos, "all")
    /\ last = [op |-> "init", id |-> 0, call |-> NoCall, body |-> <<>>, ret |-> FALSE,
               pre |-> [todos |-> todos, cache |-> Absent, error |-> Null,
                        loading |-> FALSE, pending |-> <<>>, fetchPc |-> "done",
                        server |-> <<>>]]

PresenterNext == \E f \in Filters : SetFilter(f)

PresenterSpec == PresenterInit /\ [][PresenterNext]_vars

\* The mount effect runs once the first render is committed, and the GET settles
\* (fetch resolves or rejects): the continuation of fetchTodos is then run by the
\* event loop.  Nothing is assumed about user input or about the POST calls.
FetchSettles ==
    \/ \E body \in GetBodies(server) : FetchSuccess(body)
    \/ \E reason \in Failures : FetchFailure(reason)

FairSpec == Spec /\ WF_vars(Mount) /\ WF_vars(FetchSettles)

-----------------------------------------------------------------------------
(* Properties *)

\* the value stored under "todos" is the JSON text of an array of objects
HoldsObjects(c) ==
    /\ CanParse(c)
    /\ IsArray(JsonParse(c))
    /\ \A i \in 1..Len(JsonParse(c).a) : "o" \in DOMAIN JsonParse(c).a[i]

\* that value read back: JSON.parse, and the properties of each element
Deserialized(c) == [i \in 1..Len(JsonParse(c).a) |-> JsonParse(c).a[i].o]

\* the cache deserializes to exactly the list: elements, order and field values
MirrorsList == HoldsObjects(cache) /\ Deserialized(cache) = todos

Mutations == {"addOk", "addFail", "toggle", "delete"}

\* C1: right after an add (remote success or failure), a toggle or a delete
\* completes, the cache under "todos" deserializes to exactly the in-memory list
\* that mutation wrote: same elements, same order, same field values.
C1_CacheMirrorsList ==
    last.op \in Mutations => MirrorsList

\* a toggle of a held task ran while an addTodo call was still outstanding
C1_Witness ==
    /\ last.op = "toggle"
    /\ last.id \in TodoIds(todos)
    /\ pending # <<>>

\* what the claim C2 says entry number i (from 1) of a cached array becomes; the
\* variants without priorities hold no priority property
C2_Expected(item, i) ==
    LET full == IF IsString(item)
                THEN [id |-> i, title |-> item, completed |-> FALSE, priority |-> "medium"]
                ELSE SpreadWith(item.o, "priority", OrDefault(item.o, "priority", "medium"))
    IN  IF variant = "priority" THEN full
        ELSE [f \in DOMAIN full \ ({"priority"} \ (IF IsString(item) THEN {} ELSE DOMAIN item.o))
                |-> full[f]]

\* C2: when the remote read fails and the cache holds a parsable array, the list
\* becomes the cache contents normalized element by element: a bare string at
\* index i becomes {id: i+1, title, completed: false, priority: medium}; an object
\* entry is passed through with its stored id and completed flag unchanged.
C2_FallbackPassesObjectsThrough ==
    (/\ last.op = "fetchFail"
     /\ Truthy(last.pre.cache)
     /\ CanParse(last.pre.cache)
     /\ IsArray(JsonParse(last.pre.cache)))
    => LET a == JsonParse(last.pre.cache).a
       IN  /\ Len(todos) = Len(a)
           /\ \A i \in 1..Len(a) : todos[i] = C2_Expected(a[i], i)

\* C3: when the remote read fails and the cache is absent, unparsable or no
\* array, then right after fetchTodos the list is empty and the warning is set.
C3_FallbackWithoutCacheIsEmpty ==
    (/\ last.op = "fetchFail"
     /\ \/ ~Truthy(last.pre.cache)
        \/ ~CanParse(last.pre.cache)
        \/ ~IsArray(JsonParse(last.pre.cache)))
    => /\ todos = <<>>
       /\ error # Null

\* the read failed with a stored value that parses to a non-array
C3_Witness ==
    /\ last.op = "fetchFail"
    /\ CanParse(last.pre.cache)
    /\ ~IsArray(JsonParse(last.pre.cache))

\* C4: when the remote read succeeds, the list is the server's data array in the
\* same order, each element's priority defaulted to medium when missing (priority
\* variant; the other variants take the elements as they are), an absent data
\* field gives the empty list, the warning is null, and the cache is as before.
C4_LoadReplacesListOnly ==
    last.op = "fetchOk" =>
        LET data == IF "data" \in DOMAIN last.body THEN last.body.data ELSE <<>>
        IN  /\ Len(todos) = Len(data)
            /\ \A i \in 1..Len(data) :
                  /\ \A f \in DOMAIN data[i] : f \in DOMAIN todos[i] /\ todos[i][f] = data[i][f]
                  /\ DOMAIN todos[i] =
                        DOMAIN data[i] \cup (IF variant = "priority" THEN {"priority"} ELSE {})
                  /\ (variant = "priority" /\ "priority" \notin DOMAIN data[i])
                        => todos[i].priority = "medium"
            /\ error = Null
            /\ cache = last.pre.cache

\* a load of two records, with and without a priority, over a stored cache
C4_Witness ==
    /\ last.op = "fetchOk"
    /\ variant = "priority"
    /\ Len(todos) = 2
    /\ Truthy(cache)

\* the record the claim C5 says a failed add appends to the list `list`
C5_Synthesized(list) ==
    IF variant = "priority"
    THEN [id |-> Len(list) + 1, title |-> Str(last.call.task), completed |-> FALSE,
          priority |-> last.call.priority]
    ELSE [id |-> Len(list) + 1, title |-> Str(last.call.task), completed |-> FALSE]

\* C5: when the remote create fails, addTodo appends exactly one record
\* {id: n+1, title: the submitted text, completed: false, priority: as chosen} to
\* the in-memory list, n being the current length of the list, writes that list
\* to the cache, sets the warning and returns false; the tasks present before
\* remain, unchanged and in order.
C5_FailedAddAppendsToCurrentList ==
    last.op = "addFail" =>
        /\ todos = Append(last.pre.todos, C5_Synthesized(last.pre.todos))
        /\ MirrorsList
        /\ error # Null
        /\ last.ret = FALSE

\* C6: when the remote create succeeds, the server's record (with the chosen
\* priority in the priority variant) is appended as the last element of the
\* current in-memory list, every task present before stays, the resulting list is
\* written to the cache, and addTodo returns true.
C6_AddAppendsToCurrentList ==
    last.op = "addOk" =>
        LET record == last.body.data
            added == IF variant = "priority"
                     THEN [f \in DOMAIN record \cup {"priority"} |->
                             IF f = "priority" THEN last.call.priority ELSE record[f]]
                     ELSE record
        IN  /\ todos = Append(last.pre.todos, added)
            /\ MirrorsList
            /\ last.ret = TRUE

\* C7: in every reachable state the ids of the tasks in the list are pairwise
\* distinct.
C7_IdsDistinct ==
    \A i, j \in 1..Len(todos) : i # j => todos[i].id # todos[j].id

\* C8: toggleTodoCompletion(id) called a second time on the list the first call
\* left gives back the list the first call started from (every field of every
\* task, and the order); when no task has the id, the first call changes nothing.
C8_ToggleTwiceRestores ==
    last.op = "toggle" =>
        /\ Toggled(todos, last.id) = last.pre.todos
        /\ last.id \notin TodoIds(last.pre.todos) => todos = last.pre.todos

\* a toggle of an id that two tasks of the list share
C8_Witness ==
    /\ last.op = "toggle"
    /\ \E i, j \in 1..Len(todos) :
          i # j /\ todos[i].id = last.id /\ todos[j].id = last.id
    /\ todos # last.pre.todos

\* the tasks of `list` whose id differs from `id`, in order
RECURSIVE Without(_, _)
Without(list, id) ==
    IF list = <<>> THEN <<>>
    ELSE IF Head(list).id = id THEN Without(Tail(list), id)
    ELSE <<Head(list)>> \o Without(Tail(list), id)

\* C9: deleteTodo(id) removes every task with that id and nothing else: the
\* list is the former list restricted to the tasks with another id, in order and
\* with unchanged fields, and no remote call is issued.
C9_DeleteRemovesExactlyTheId ==
    last.op = "delete" =>
        /\ todos = Without(last.pre.todos, last.id)
        /\ pending = last.pre.pending
        /\ fetchPc = last.pre.fetchPc
        /\ server = last.pre.server

\* a delete that removed two tasks sharing the id
C9_Witness ==
    /\ last.op = "delete"
    /\ Len(last.pre.todos) = Len(todos) + 2

\* C10: on every path of the initial load the loading indicator is eventually
\* false and stays false, the load is started exactly once, and no later add,
\* toggle or delete sets the indicator back to true.
C10_LoadingClearsForGood ==
    /\ <>[](fetchPc = "done" /\ ~loading)
    /\ [][fetchPc' # fetchPc =>
            \/ fetchPc = "idle" /\ fetchPc' = "awaiting"
            \/ fetchPc = "awaiting" /\ fetchPc' = "done"]_vars
    /\ [][~loading => ~loading']_vars

\* a mutation that ran after the load had finished
C10_Witness ==
    /\ fetchPc = "done"
    /\ ~loading
    /\ last.op \in Mutations
    /\ last.pre.fetchPc = "done"

\* C11: no mutation is lost to interleaving: when the list changed (toggle,
\* delete, another add, the loader's replacement) while an addTodo call was
\* outstanding, then on completion of that call the list and the cache hold the
\* list as it was at completion time followed by the new task.
C11_AddKeepsInterveningEffects ==
    (/\ last.op \in {"addOk", "addFail"}
     /\ last.pre.todos # last.call.todos)
    => /\ Len(todos) = Len(last.pre.todos) + 1
       /\ SubSeq(todos, 1, Len(last.pre.todos)) = last.pre.todos
       /\ MirrorsList

\* number of positions of `list` that hold the task t
Occurrences(list, t) == Cardinality({i \in 1..Len(list) : list[i] = t})

\* C12: for every list, the views of the filters "active" and "completed" have
\* no task in common and together hold exactly the tasks of the view of "all",
\* which is the whole list: each task is in exactly one of the two.
C12_ActiveAndCompletedPartitionAll ==
    LET all == FilteredTodos(todos, "all")
        active == FilteredTodos(todos, "active")
        completed == FilteredTodos(todos, "completed")
    IN  /\ all = todos
        /\ \A i \in 1..Len(active), j \in 1..Len(completed) : active[i] # completed[j]
        /\ \A i \in 1..Len(all) :
              /\ Occurrences(active, all[i]) + Occurrences(completed, all[i])
                    = Occurrences(all, all[i])
              /\ Occurrences(active, all[i]) = 0 \/ Occurrences(completed, all[i]) = 0
        /\ \A i \in 1..Len(active) : Occurrences(all, active[i]) > 0
        /\ \A i \in 1..Len(completed) : Occurrences(all, completed[i]) > 0

\* the "active" button pressed on a list holding both kinds of task; the filter
\* variant displays the filtered list as it is
C12_Witness ==
    /\ last.op = "filter"
    /\ filter = "active"
    /\ variant = "filter"
    /\ view # <<>>
    /\ Len(view) < Len(todos)
    /\ view = FilteredTodos(todos, "active")

\* rank of a priority, as the claim C13 gives it
C13_Rank(p) == IF p = "high" THEN 3 ELSE IF p = "medium" THEN 2 ELSE 1

\* one-to-one maps of the positions 1..n
Reorderings(n) == {f \in [1..n -> 1..n] : \A i, j \in 1..n : i # j => f[i] # f[j]}

\* C13: in the priority variant the displayed sequence is a permutation of the
\* filtered list in non-increasing priority rank (high 3, medium 2, low 1), two
\* tasks of equal priority keep the relative order they have in the filtered
\* list, and the render leaves the in-memory list as it was.
C13_SortIsStableByRank ==
    variant = "priority" =>
        LET filtered == FilteredTodos(todos, filter)
            n == Len(filtered)
        IN  /\ Len(view) = n
            /\ \E from \in Reorderings(n) :
                  /\ \A k \in 1..n : view[k] = filtered[from[k]]
                  /\ \A k, l \in 1..n :
                        k < l =>
                          /\ C13_Rank(view[k].priority) >= C13_Rank(view[l].priority)
                          /\ view[k].priority = view[l].priority => from[k] < from[l]
            /\ last.op = "filter" => todos = last.pre.todos

\* the list [A(high), B(medium), C(high)] displayed as [A, C, B]
C13_Witness ==
    /\ variant = "priority"
    /\ last.op = "filter"
    /\ Len(todos) = 3
    /\ todos[1].priority = "high" /\ todos[2].priority = "medium" /\ todos[3].priority = "high"
    /\ todos[1] # todos[3]
    /\ view = <<todos[1], todos[3], todos[2]>>

====
